---- MODULE Spec2Model ----
(***************************************************************************)
(* Model of the QuickRoute address parser's outbound request pipeline:     *)
(* query validation (AddressSearchSchema), the retrying request executor   *)
(* (BaseHttpService.makeRequest + axios-retry), the failure classifier     *)
(* (BaseHttpService.mapError / handleError, HttpErrorInterceptor), the     *)
(* result validation of TomTomAddressProvider.getSuggestions, the result   *)
(* of searchAddresses, and the renderer of errors (createErrorFromException,*)
(* ErrorResponseBuilder, EnhancedGlobalExceptionFilter).                   *)
(* Further parts: the error logging (ErrorLoggingService), the standalone  *)
(* parser's lifecycle (QuickrouteAddressParser), two calls side by side,   *)
(* and makeRequest's request config and mapToSuggestion's score.           *)
(*                                                                         *)
(* Time is counted in ticks of 100 ms, the delay factor of                 *)
(* axiosRetry.exponentialDelay.                                            *)
(***************************************************************************)
EXTENDS Integers, Sequences, FiniteSets, TLC

VARIABLES
    \* ---- one search call (Spec) ----
    retries,      \* options.retries, fixed at construction
    pc,           \* "idle" | "request" | "backoff" | "done"
    query,        \* raw query text of the call, as <<leading ws, core, trailing ws>>
    limit,        \* raw limit of the call
    validated,    \* validatedData of the call: [query, limit]
    attempts,     \* HTTP requests handed to the transport for this call
    retryCount,   \* axios-retry's retryCount of the request
    elapsed,      \* ticks since makeRequest subscribed
    deadline,     \* tick at which the rxjs timeout timer of makeRequest is due
    wait,         \* ticks left of the current back-off delay
    responses,    \* what the provider answered to each attempt, in order
    timedOut,     \* the rxjs timeout of makeRequest fired
    result,       \* outcome of the call
    \* ---- the failure classifier on its own (SpecClassify) ----
    raw,          \* the error handed to the classifier
    via,          \* which classifier ran: "none" | "mapError" | "handleError" | "intercept"
    mapped,       \* what it did: [thrown, exc]
    \* ---- validation, result validation and the envelope (SpecSearch, SpecValidate) ----
    stage,        \* "new" | "awaiting" | "done" | "validated" | "revalidated"
    input,        \* what the caller passed: [query, limit, country]
    checked,      \* ValidationOutcome of input
    rechecked,    \* ValidationOutcome of checked.data
    body,         \* response.data of the provider's HTTP 200 answer
    settled,      \* what searchAddresses resolved or rejected with
    \* ---- the exception filter (SpecFilter) ----
    request,      \* the express request: [header, correlationId, url]
    exception,    \* the value the filter caught
    uuid,         \* what the next uuidv4() call returns
    reply,        \* what the filter did: context built, body and status replied
    \* ---- error logging (SpecLogging) ----
    level,        \* LoggingConfig.level of the ErrorLoggingService
    logRecord,    \* the last call of a logger: [via, exc, emitted]
    \* ---- the standalone parser (SpecLifecycle, SpecStandalone) ----
    parser,       \* fields of QuickrouteAddressParser: [app, service, isInitialized]
    callers,      \* each caller's position in its call and the call's outcome
    nest,         \* NestFactory and the contexts: [creations, created, closes]
    \* ---- two calls on one service (SpecCalls) ----
    calls,        \* per call: [pc, query, answer, outcome]
    requests,     \* HTTP requests the provider received, in order of arrival
    \* ---- makeRequest's request config and mapToSuggestion's score (SpecUnit) ----
    subject,      \* the arguments of the function applied
    product       \* what it returned

vars == <<retries, pc, query, limit, validated, attempts, retryCount, elapsed,
          deadline, wait, responses, timedOut, result, raw, via, mapped,
          stage, input, checked, rechecked, body, settled,
          request, exception, uuid, reply, level, logRecord,
          parser, callers, nest, calls, requests, subject, product>>

callVars == <<retries, pc, query, limit, validated, attempts, retryCount, elapsed,
              deadline, wait, responses, timedOut, result>>

classifyVars == <<raw, via, mapped>>

searchVars == <<stage, input, checked, rechecked, body, settled>>

filterVars == <<request, exception, uuid, reply>>

loggingVars == <<level, logRecord>>

standaloneVars == <<parser, callers, nest>>

concurrentVars == <<calls, requests>>

unitVars == <<subject, product>>

otherVars == <<standaloneVars, concurrentVars, unitVars>>

laterVars == <<loggingVars, otherVars>>

(***************************************************************************)
(* Bounds of the model.                                                    *)
(***************************************************************************)
\* largest options.retries explored
MaxRetries == 3
\* options.timeout, in ticks
TimeoutTicks == 16
\* identities of the error instances handed to the classifier
MaxId == 2

(***************************************************************************)
(* Error objects.  One record shape serves raw transport errors, arbitrary *)
(* thrown values and the exceptions of the taxonomy:                       *)
(*   isObj        error && typeof error === "object"                       *)
(*   cls          the exception class ("none" for anything else)           *)
(*   name         error.name                                               *)
(*   hasResponse  "response" in error                                      *)
(*   status       error.response?.status (NoStatus when undefined)         *)
(*   hasRequest   "request" in error                                       *)
(*   hasConfig    error.config is set (axios-retry needs it to retry)      *)
(*   id           identity of the instance (0: created by the classifier)  *)
(*   statusCode, category, details: the fields of a ProviderException /    *)
(*                HttpException                                            *)
(***************************************************************************)
NoStatus == 0 - 1

TaxonomyClasses ==
    { "InvalidInputException", "NoResultsException", "CountryMismatchException",
      "ProviderException", "ProviderAuthenticationError", "ProviderRateLimitError",
      "ProviderServiceError", "ProviderNetworkError", "ProviderUnknownError" }

\* new HttpException(response, status): every HttpException has a `response`
\* field, and none of the library's response bodies has a `status` key.
NewException(cls, category, details, statusCode) ==
    [ isObj |-> TRUE, cls |-> cls, name |-> cls, hasResponse |-> TRUE,
      status |-> NoStatus, hasRequest |-> FALSE, hasConfig |-> FALSE, id |-> 0,
      statusCode |-> statusCode, category |-> category, details |-> details ]

InvalidInputException(details) ==
    NewException("InvalidInputException", "", details, 400)

NoResultsException ==
    NewException("NoResultsException", "", "No address suggestions found", 404)

CountryMismatchException ==
    NewException("CountryMismatchException", "", "Address validation failed", 422)

ProviderException(category, details, statusCode) ==
    NewException("ProviderException", category, details, statusCode)

ProviderAuthenticationError(details) ==
    NewException("ProviderAuthenticationError", "Authentication", details, 401)

ProviderRateLimitError(details) ==
    NewException("ProviderRateLimitError", "RateLimit", details, 429)

ProviderServiceError(details) ==
    NewException("ProviderServiceError", "ServerError", details, 502)

ProviderNetworkError(details) ==
    NewException("ProviderNetworkError", "NetworkError", details, 503)

ProviderUnknownError(details) ==
    NewException("ProviderUnknownError", "UnknownError", details, 500)

\* createValidationException: a BadRequestException, outside the provider taxonomy
BadRequestException ==
    NewException("BadRequestException", "", "Validation failed", 400)

\* A value that is not an exception of the library.
RawError(isObj, name, hasResponse, status, hasRequest, hasConfig, id) ==
    [ isObj |-> isObj, cls |-> "none", name |-> name, hasResponse |-> hasResponse,
      status |-> status, hasRequest |-> hasRequest, hasConfig |-> hasConfig, id |-> id,
      statusCode |-> 0, category |-> "", details |-> "" ]

\* the error rxjs' timeout operator raises
TimeoutError == RawError(TRUE, "TimeoutError", FALSE, NoStatus, FALSE, FALSE, 0)

(***************************************************************************)
(* defaultErrorMapper                                                      *)
(***************************************************************************)
mapHttpError_403Generic(status) ==
    IF status = 400 THEN InvalidInputException("Invalid query parameters")
    ELSE IF status = 401
        THEN ProviderAuthenticationError("Invalid API key or insufficient permissions")
    ELSE IF status = 429 THEN ProviderRateLimitError("Too many requests")
    ELSE IF status # NoStatus /\ status # 0 /\ status >= 500
        THEN ProviderServiceError("Service unavailable (HTTP)")
    ELSE ProviderException("HTTPError", "HTTP",
                           IF status = NoStatus \/ status = 0 THEN 500 ELSE status)

mapHttpError(status) ==
    IF status = 400 THEN InvalidInputException("Invalid query parameters")
    ELSE IF status = 401 \/ status = 403
        THEN ProviderAuthenticationError("Invalid API key or insufficient permissions")
    ELSE IF status = 429 THEN ProviderRateLimitError("Too many requests")
    ELSE IF status # NoStatus /\ status # 0 /\ status >= 500
        THEN ProviderServiceError("Service unavailable (HTTP)")
    ELSE ProviderException("HTTPError", "HTTP",
                           IF status = NoStatus \/ status = 0 THEN 500 ELSE status)

mapNetworkError == ProviderNetworkError("Failed to connect to API")

mapUnknownError(error) == ProviderUnknownError("Unknown error occurred")

shouldRethrowException_NoCountryMismatch(error) ==
    error.cls \in TaxonomyClasses \ {"CountryMismatchException"}

shouldRethrowException(error) ==
    error.cls \in TaxonomyClasses

(***************************************************************************)
(* The classifiers.  Each yields [thrown, exc]: thrown is TRUE when the    *)
(* function left by `throw`, FALSE when it returned exc.                   *)
(***************************************************************************)
Thrown(e) == [thrown |-> TRUE, exc |-> e]
Returned(e) == [thrown |-> FALSE, exc |-> e]

isTimeoutError(error) == error.isObj /\ error.name = "TimeoutError"

mapError_NetworkBeforeResponse(error) ==
    IF shouldRethrowException(error) THEN Thrown(error)
    ELSE IF isTimeoutError(error)
        THEN Returned(ProviderServiceError("Request timeout"))
    ELSE IF error.isObj /\ error.hasRequest THEN Returned(mapNetworkError)
    ELSE IF error.isObj /\ error.hasResponse THEN Returned(mapHttpError(error.status))
    ELSE Returned(mapUnknownError(error))

mapError_NonObjectThrows(error) ==
    IF shouldRethrowException(error) \/ ~error.isObj THEN Thrown(error)
    ELSE IF isTimeoutError(error)
        THEN Returned(ProviderServiceError("Request timeout"))
    ELSE IF error.hasResponse THEN Returned(mapHttpError(error.status))
    ELSE IF error.hasRequest THEN Returned(mapNetworkError)
    ELSE Returned(mapUnknownError(error))

\* BaseHttpService.mapError
mapError(error) ==
    IF shouldRethrowException(error) THEN Thrown(error)
    ELSE IF isTimeoutError(error)
        THEN Returned(ProviderServiceError("Request timeout"))
    ELSE IF error.isObj /\ error.hasResponse THEN Returned(mapHttpError(error.status))
    ELSE IF error.isObj /\ error.hasRequest THEN Returned(mapNetworkError)
    ELSE Returned(mapUnknownError(error))

\* BaseHttpService.handleError: declared `never`, every branch throws; it has
\* no timeout branch.
handleError(error) ==
    IF shouldRethrowException(error) THEN Thrown(error)
    ELSE IF error.isObj /\ error.hasResponse THEN Thrown(mapHttpError(error.status))
    ELSE IF error.isObj /\ error.hasRequest THEN Thrown(mapNetworkError)
    ELSE Thrown(mapUnknownError(error))

\* HttpErrorInterceptor.mapErrorToException with the interceptor's own
\* defaultErrorMapper, which builds the same exceptions as BaseHttpService's.
mapErrorToException(error) ==
    IF shouldRethrowException(error) THEN Thrown(error)
    ELSE IF isTimeoutError(error)
        THEN Returned(ProviderServiceError("Request timeout"))
    ELSE IF error.isObj /\ error.hasResponse THEN Returned(mapHttpError(error.status))
    ELSE IF error.isObj /\ error.hasRequest THEN Returned(mapNetworkError)
    ELSE Returned(mapUnknownError(error))

\* catchError(selector): an exception thrown inside the selector and an
\* exception returned through throwError both reach the subscriber as the
\* error of the stream.
Surfaced(m) == m.exc

(***************************************************************************)
(* SpecClassify: the classifiers applied to every shape of error.          *)
(***************************************************************************)
ClassifierStatuses ==
    {200, 302, 400, 401, 403, 404, 418, 429, 499, 500, 502, 503, 599, 600}

WithId(e, i) == [e EXCEPT !.id = i]

\* objects that are no exception of the library: plain Errors, AxiosErrors,
\* rxjs TimeoutErrors and look-alikes, with or without response / request keys
RawObjects ==
    { RawError(TRUE, n, hr, s, hq, FALSE, i) :
        n \in {"Error", "AxiosError", "TimeoutError"}, hr \in BOOLEAN,
        s \in ClassifierStatuses \cup {NoStatus}, hq \in BOOLEAN, i \in 1..MaxId }

\* null, undefined, strings
NonObjects ==
    { RawError(FALSE, "", FALSE, NoStatus, FALSE, FALSE, i) : i \in 1..MaxId }

ClassifiedErrors ==
    { WithId(e, i) :
        e \in { InvalidInputException("bad"), NoResultsException,
                CountryMismatchException,
                ProviderException("HTTPError", "HTTP", 404),
                ProviderAuthenticationError("Authentication failed"),
                ProviderRateLimitError("Rate limit exceeded"),
                ProviderServiceError("Service unavailable"),
                ProviderNetworkError("Network connectivity issue"),
                ProviderUnknownError("Unknown error occurred") },
        i \in 1..MaxId }

ClassifierInputs ==
    { e \in RawObjects : ~e.hasResponse => e.status = NoStatus }
        \cup NonObjects \cup ClassifiedErrors
        \cup { WithId(BadRequestException, i) : i \in 1..MaxId }

NoError == RawError(FALSE, "", FALSE, NoStatus, FALSE, FALSE, 0)

NoOutcome == Returned(NoError)

MapErrorStep ==
    /\ via = "none"
    /\ via' = "mapError"
    /\ mapped' = mapError(raw)
    /\ UNCHANGED <<raw, callVars, searchVars, filterVars, laterVars>>

HandleErrorStep ==
    /\ via = "none"
    /\ via' = "handleError"
    /\ mapped' = handleError(raw)
    /\ UNCHANGED <<raw, callVars, searchVars, filterVars, laterVars>>

InterceptStep ==
    /\ via = "none"
    /\ via' = "intercept"
    /\ mapped' = mapErrorToException(raw)
    /\ UNCHANGED <<raw, callVars, searchVars, filterVars, laterVars>>

(***************************************************************************)
(* Query validation (AddressSearchSchema, getValidatedDataOrThrow).        *)
(* A query text is <<l, c, t>>: l leading whitespace characters, a core of *)
(* c characters that neither starts nor ends with whitespace, t trailing   *)
(* whitespace characters.                                                  *)
(***************************************************************************)
MIN_LENGTH == 3
MAX_LENGTH == 200
minLimit == 1
maxLimit == 100

Length(q) == q[1] + q[2] + q[3]

trim_OneEach(q) ==
    <<IF q[1] > 0 THEN q[1] - 1 ELSE 0, q[2], IF q[3] > 0 THEN q[3] - 1 ELSE 0>>

\* String.prototype.trim, also zod's .trim()
trim(q) == <<0, q[2], 0>>

AddressSearchSchema_NoTrim(q, l) ==
    IF /\ Length(q) >= MIN_LENGTH
       /\ Length(q) <= MAX_LENGTH
       /\ l >= minLimit
       /\ l <= maxLimit
    THEN [isValid |-> TRUE, data |-> [query |-> q, limit |-> l]]
    ELSE [isValid |-> FALSE, data |-> [query |-> q, limit |-> l]]

\* AddressSearchSchema.parse as validateAddressInput uses it
AddressSearchSchema(q, l) ==
    IF /\ Length(trim(q)) >= MIN_LENGTH
       /\ Length(trim(q)) <= MAX_LENGTH
       /\ l >= minLimit
       /\ l <= maxLimit
    THEN [isValid |-> TRUE, data |-> [query |-> trim(q), limit |-> l]]
    ELSE [isValid |-> FALSE, data |-> [query |-> q, limit |-> l]]

QueryInputs ==
    { <<w[1], c, w[2]>> : w \in {<<0, 0>>, <<2, 1>>}, c \in {2, 3, 200, 201} }

LimitInputs == {0, 1, 100, 101}

NoData == [query |-> <<0, 0, 0>>, limit |-> 0]

(***************************************************************************)
(* What the transport can answer to one attempt.                           *)
(***************************************************************************)
PipelineStatuses == {400, 403, 404, 429, 500, 503}

\* AxiosError of a response whose status fails validateStatus
HttpFailure(s) == RawError(TRUE, "AxiosError", TRUE, s, TRUE, TRUE, 0)

\* AxiosError of a request that got no response (ECONNRESET, ECONNABORTED, ...)
NetworkFailure == RawError(TRUE, "AxiosError", FALSE, NoStatus, TRUE, TRUE, 0)

\* AxiosError raised before anything was sent (unsupported protocol, body too
\* large, ...): it has the request's config, but no request and no response
SetupFailure == RawError(TRUE, "AxiosError", FALSE, NoStatus, FALSE, TRUE, 0)

\* an error without config, e.g. thrown by another interceptor
PlainFailure == RawError(TRUE, "Error", FALSE, NoStatus, FALSE, FALSE, 0)

Failed(e) == [ok |-> FALSE, payload |-> "", err |-> e]

\* HTTP 200 with a body: Australian results, no results, only foreign
\* results, or TomTom's in-band error envelope
Succeeded(p) == [ok |-> TRUE, payload |-> p, err |-> NoError]

Payloads == {"au", "empty", "foreign", "inband"}

Answers ==
    { Succeeded(p) : p \in Payloads }
        \cup { Failed(HttpFailure(s)) : s \in PipelineStatuses }
        \cup { Failed(NetworkFailure), Failed(SetupFailure), Failed(PlainFailure) }

(***************************************************************************)
(* axios-retry as setupAxiosRetry configures it.                           *)
(***************************************************************************)
\* axiosRetry.isNetworkOrIdempotentRequestError for the GET the search issues
isNetworkOrIdempotentRequestError(error) ==
    ~error.hasResponse \/ (error.status >= 500 /\ error.status <= 599)

retryCondition_No429(error) ==
    IF ~error.hasResponse THEN TRUE
    ELSE IF isNetworkOrIdempotentRequestError(error) THEN TRUE
    ELSE error.status \in {500, 502, 503, 504}

retryCondition(error) ==
    IF ~error.hasResponse THEN TRUE
    ELSE IF isNetworkOrIdempotentRequestError(error) THEN TRUE
    ELSE error.status \in {429, 500, 502, 503, 504}

shouldRetry_OneMore(error, count, max) ==
    error.hasConfig /\ count <= max /\ retryCondition(error)

\* axios-retry's interceptor: an error is retried while retryCount < retries
\* and retryCondition accepts it; an error without config is rejected at once
shouldRetry(error, count, max) ==
    error.hasConfig /\ count < max /\ retryCondition(error)

\* axiosRetry.exponentialDelay(retryNumber): 2^retryNumber * 100 ms ...
exponentialDelay(retryNumber) == 2 ^ retryNumber

\* ... plus a random 0..20 % of it
Jitter(retryNumber) == 0 .. (exponentialDelay(retryNumber) \div 5)

rejection_First(history) == history[1].err

\* the error the request finally rejects with, which catchError receives
rejection(history) == history[Len(history)].err

(***************************************************************************)
(* Result validation of getSuggestions.                                    *)
(***************************************************************************)
Ok == [kind |-> "ok", exc |-> NoError]
Err(e) == [kind |-> "error", exc |-> e]
NoResult == [kind |-> "none", exc |-> NoError]

validateResults(payload) ==
    IF payload = "inband" THEN Err(ProviderServiceError("TomTom API Error"))
    ELSE IF payload = "empty" THEN Err(NoResultsException)
    ELSE IF payload = "foreign" THEN Err(CountryMismatchException)
    ELSE Ok

(***************************************************************************)
(* Validation of a whole input object (validateAddressInput).              *)
(* A text is <<l, c, t>> as above; for a country c is the token itself.    *)
(* An optional key of the input is a pair of fields: hasX tells whether    *)
(* the key is defined.                                                     *)
(***************************************************************************)
OPTIMAL_MIN_LENGTH == 10
OPTIMAL_MAX_LENGTH == 100
DEFAULT_LIMIT == 10

AUSTRALIA ==
    [COUNTRY_CODE |-> "AU", COUNTRY_CODE_ISO3 |-> "AUS", COUNTRY_NAME |-> "Australia"]

\* String.prototype.toLowerCase on the country texts of the model
toLowerCase(s) ==
    CASE s \in {"Australia", "AUSTRALIA", "australia"} -> "australia"
      [] s \in {"AU", "au"} -> "au"
      [] s \in {"AUS", "Aus", "aus"} -> "aus"
      [] s \in {"NZ", "nz"} -> "nz"
      [] s \in {"New Zealand", "new zealand"} -> "new zealand"
      [] OTHER -> s

isValidAustralianCountry(value) ==
    LET normalizedValue == toLowerCase(trim(value)[2]) IN
    normalizedValue \in { toLowerCase(AUSTRALIA.COUNTRY_NAME),
                          toLowerCase(AUSTRALIA.COUNTRY_CODE),
                          toLowerCase(AUSTRALIA.COUNTRY_CODE_ISO3) }

NoText == <<0, "", 0>>

Input(q, hasLimit, l, hasCountry, c) ==
    [query |-> q, hasLimit |-> hasLimit, limit |-> l,
     hasCountry |-> hasCountry, country |-> c]

NoInput == Input(<<0, 0, 0>>, FALSE, 0, FALSE, NoText)

\* AddressSearchSchema.parse(input): query and limit as AddressSearchSchema
\* above, limit defaulted, country trimmed and refined
parse(in) ==
    LET l == IF in.hasLimit THEN in.limit ELSE DEFAULT_LIMIT
        base == AddressSearchSchema(in.query, l)
        country == IF in.hasCountry THEN trim(in.country) ELSE NoText
        countryOk == ~in.hasCountry \/ isValidAustralianCountry(country)
    IN  IF base.isValid /\ countryOk
        THEN [isValid |-> TRUE,
              data |-> Input(base.data.query, TRUE, l, in.hasCountry, country)]
        ELSE [isValid |-> FALSE, data |-> NoInput]

SHORTER == "Query is shorter than optimal length"
LONGER == "Query is longer than optimal length"

generateValidationWarnings_ShortAtTen(data) ==
    (IF Length(data.query) <= OPTIMAL_MIN_LENGTH THEN <<SHORTER>> ELSE <<>>)
        \o (IF Length(data.query) > OPTIMAL_MAX_LENGTH THEN <<LONGER>> ELSE <<>>)

generateValidationWarnings(data) ==
    (IF Length(data.query) < OPTIMAL_MIN_LENGTH THEN <<SHORTER>> ELSE <<>>)
        \o (IF Length(data.query) > OPTIMAL_MAX_LENGTH THEN <<LONGER>> ELSE <<>>)

NoValidation == [isValid |-> FALSE, data |-> NoInput, warnings |-> <<>>]

validateAddressInput(in) ==
    LET validatedData == parse(in) IN
    IF validatedData.isValid
    THEN [isValid |-> TRUE, data |-> validatedData.data,
          warnings |-> generateValidationWarnings(validatedData.data)]
    ELSE NoValidation

(***************************************************************************)
(* The provider's response body and TomTomAddressProvider.getSuggestions.  *)
(* A raw result is its address: the three country fields of TomTomAddress  *)
(* ("" when the field is missing) and, for the properties only, the nation *)
(* the address really is in.  A suggestion keeps `raw`, the position of    *)
(* the result object it was mapped from.                                   *)
(***************************************************************************)
MaxResults == 3

\* calls of NestFactory.createApplicationContext in a run
MaxContexts == 3

\* calls of app.close() in a run
MaxCloses == 3

\* requests the provider receives in a run
MaxRequests == 4

Address(nation, countryCode, countryCodeISO3, country) ==
    [nation |-> nation, countryCode |-> countryCode,
     countryCodeISO3 |-> countryCodeISO3, country |-> country]

ResultShapes ==
    { Address("AU", "AU", "AUS", "Australia"),
      Address("AU", "", "AUS", ""),
      Address("AU", "", "", "AUSTRALIA"),
      Address("NZ", "NZ", "NZL", "New Zealand"),
      Address("US", "US", "", ""),
      Address("??", "", "", "") }

ResultLists == UNION { [1..n -> ResultShapes] : n \in 0..MaxResults }

\* response.data: TomTom's error envelope keys and the results array
Data(detailedError, errorText, hasResults, results) ==
    [detailedError |-> detailedError, errorText |-> errorText,
     hasResults |-> hasResults, results |-> results]

Bodies ==
    { Data(FALSE, FALSE, TRUE, rs) : rs \in ResultLists }
        \cup { Data(FALSE, FALSE, FALSE, <<>>) }
        \cup { Data(d, e, TRUE, rs) :
                 d \in BOOLEAN, e \in BOOLEAN,
                 rs \in { r \in ResultLists : Len(r) <= 1 } }

NoBody == Data(FALSE, FALSE, FALSE, <<>>)

isAustralianAddress_AnyCode(address) ==
    \/ address.countryCode # ""
    \/ address.countryCodeISO3 = AUSTRALIA.COUNTRY_CODE_ISO3
    \/ address.country = AUSTRALIA.COUNTRY_NAME
    \/ toLowerCase(address.country) = "australia"

isAustralianAddress(address) ==
    \/ address.countryCode = AUSTRALIA.COUNTRY_CODE
    \/ address.countryCodeISO3 = AUSTRALIA.COUNTRY_CODE_ISO3
    \/ address.country = AUSTRALIA.COUNTRY_NAME
    \/ toLowerCase(address.country) = "australia"

\* the result objects of an array, each with its position
Indexed(arr) == [i \in 1..Len(arr) |-> [raw |-> i, address |-> arr[i]]]

Reverse(arr) == [i \in 1..Len(arr) |-> arr[Len(arr) + 1 - i]]

australianResults_Reversed(results) ==
    Reverse(SelectSeq(results, LAMBDA r : isAustralianAddress(r.address)))

\* results.filter((result) => this.isAustralianAddress(result.address))
australianResults(results) ==
    SelectSeq(results, LAMBDA r : isAustralianAddress(r.address))

\* Array.prototype.indexOf of an element the array holds
indexOf(arr, x) ==
    CHOOSE i \in 1..Len(arr) : arr[i] = x /\ \A j \in 1..(i - 1) : arr[j] # x

firstOccurrences_All(arr) == arr

\* arr.filter((country, index, arr) => arr.indexOf(country) === index)
firstOccurrences(arr) ==
    LET at == [i \in 1..Len(arr) |-> <<i, arr[i]>>]
        kept == SelectSeq(at, LAMBDA p : indexOf(arr, p[2]) = p[1])
    IN  [i \in 1..Len(kept) |-> kept[i][2]]

\* Array.prototype.join: the pieces of the joined string
RECURSIVE join(_, _)
join(arr, sep) ==
    IF Len(arr) = 0 THEN <<>>
    ELSE IF Len(arr) = 1 THEN <<arr[1]>>
    ELSE <<arr[1], sep>> \o join(Tail(arr), sep)

\* mapToSuggestion / mapTomTomResultToIAddress, as far as country and raw go
mapToSuggestion(r) ==
    [raw |-> r.raw,
     country |-> IF r.address.country = "" THEN AUSTRALIA.COUNTRY_NAME
                 ELSE r.address.country]

\* public fields of a thrown exception beyond those of the error record
NoFields == [expectedCountry |-> "", actualCountry |-> <<>>, address |-> <<0, 0, 0>>]

NoMetadata == [query |-> <<0, 0, 0>>, limit |-> 0, resultCount |-> 0, warnings |-> <<>>]

Rejected(e, fields) ==
    [thrown |-> TRUE, exc |-> e, fields |-> fields,
     results |-> <<>>, metadata |-> NoMetadata]

Resolved(results, metadata) ==
    [thrown |-> FALSE, exc |-> NoError, fields |-> NoFields,
     results |-> results, metadata |-> metadata]

NoCall == Resolved(<<>>, NoMetadata)

getSuggestions_MismatchFirst(q, data) ==
    LET trimmedQuery == trim(q)
        results == Indexed(data.results)
        australian == australianResults(results)
    IN  IF data.hasResults /\ Len(australian) = 0
        THEN Rejected(CountryMismatchException,
                      [expectedCountry |-> AUSTRALIA.COUNTRY_NAME,
                       actualCountry |-> <<>>, address |-> trimmedQuery])
        ELSE IF data.detailedError \/ data.errorText
        THEN Rejected(ProviderServiceError("TomTom API Error"), NoFields)
        ELSE IF ~data.hasResults
        THEN Rejected(NoResultsException, NoFields)
        ELSE Resolved([i \in 1..Len(australian) |-> mapToSuggestion(australian[i])],
                      NoMetadata)

\* getSuggestions once makeApiRequest resolved with `data`
getSuggestions(q, data) ==
    LET trimmedQuery == trim(q)
        results == Indexed(data.results)
        australian == australianResults(results)
        nonAustralianCountries ==
            join(firstOccurrences(
                     [i \in 1..Len(results) |->
                         IF results[i].address.country = "" THEN "Unknown"
                         ELSE results[i].address.country]), ", ")
    IN  IF data.detailedError \/ data.errorText
        THEN Rejected(ProviderServiceError("TomTom API Error"), NoFields)
        ELSE IF ~data.hasResults \/ Len(data.results) = 0
        THEN Rejected(NoResultsException, NoFields)
        ELSE IF Len(australian) = 0
        THEN Rejected(CountryMismatchException,
                      [expectedCountry |-> AUSTRALIA.COUNTRY_NAME,
                       actualCountry |-> nonAustralianCountries,
                       address |-> trimmedQuery])
        ELSE Resolved([i \in 1..Len(australian) |-> mapToSuggestion(australian[i])],
                      NoMetadata)

(***************************************************************************)
(* SpecSearch: searchAddresses against a provider that answers HTTP 200.   *)
(***************************************************************************)
searchResult_CountIsLimit(validatedData, warnings, suggestions) ==
    Resolved(suggestions,
             [query |-> validatedData.query, limit |-> validatedData.limit,
              resultCount |-> validatedData.limit, warnings |-> warnings])

\* the value searchAddresses returns
searchResult(validatedData, warnings, suggestions) ==
    Resolved(suggestions,
             [query |-> validatedData.query, limit |-> validatedData.limit,
              resultCount |-> Len(suggestions), warnings |-> warnings])

SearchQueries ==
    { <<w[1], c, w[2]>> :
        w \in {<<0, 0>>, <<2, 1>>}, c \in {2, 3, 9, 10, 100, 101, 200, 201} }

\* searchAddresses(query, limit = 10): no country is passed on
SearchInputs ==
    { Input(q, TRUE, l, FALSE, NoText) : q \in SearchQueries, l \in LimitInputs }
        \cup { Input(q, FALSE, 0, FALSE, NoText) : q \in SearchQueries }

\* searchAddresses up to its await: getValidatedDataOrThrow, then the request
SearchStart ==
    /\ stage = "new"
    /\ checked' = validateAddressInput(input)
    /\ IF checked'.isValid
       THEN /\ stage' = "awaiting"
            /\ UNCHANGED settled
       ELSE /\ stage' = "done"
            /\ settled' = Rejected(BadRequestException, NoFields)
    /\ UNCHANGED <<input, rechecked, body, callVars, classifyVars, filterVars, laterVars>>

\* the provider's answer arrived: getSuggestions examines it and
\* searchAddresses builds its result, or the exception propagates
SearchFinish ==
    /\ stage = "awaiting"
    /\ LET suggestions == getSuggestions(checked.data.query, body) IN
        settled' = IF suggestions.thrown THEN suggestions
                   ELSE searchResult(checked.data, checked.warnings,
                                     suggestions.results)
    /\ stage' = "done"
    /\ UNCHANGED <<input, checked, rechecked, body, callVars, classifyVars,
                   filterVars, laterVars>>

(***************************************************************************)
(* SpecValidate: validateAddressInput applied to an input object, and      *)
(* again to the data it produced.                                          *)
(***************************************************************************)
CountryTexts ==
    { <<w[1], c, w[2]>> :
        w \in {<<0, 0>>, <<1, 2>>}, c \in {"Australia", "au", "AUS", "NZ", ""} }

ValidateInputs ==
    { Input(q, TRUE, l, TRUE, c) :
        q \in QueryInputs, l \in LimitInputs, c \in CountryTexts }
        \cup { Input(q, FALSE, 0, TRUE, c) : q \in QueryInputs, c \in CountryTexts }
        \cup { Input(q, TRUE, l, FALSE, NoText) : q \in QueryInputs, l \in LimitInputs }
        \cup { Input(q, FALSE, 0, FALSE, NoText) : q \in QueryInputs }

ValidateStep ==
    /\ stage = "new"
    /\ checked' = validateAddressInput(input)
    /\ stage' = "validated"
    /\ UNCHANGED <<input, rechecked, body, settled, callVars, classifyVars,
                   filterVars, laterVars>>

RevalidateStep ==
    /\ stage = "validated"
    /\ checked.isValid
    /\ rechecked' = validateAddressInput(checked.data)
    /\ stage' = "revalidated"
    /\ UNCHANGED <<input, checked, body, settled, callVars, classifyVars,
                   filterVars, laterVars>>

IdleSearch ==
    /\ stage = "new"
    /\ input = NoInput
    /\ checked = NoValidation
    /\ rechecked = NoValidation
    /\ body = NoBody
    /\ settled = NoCall

(***************************************************************************)
(* The renderer: createErrorFromException, ErrorResponseBuilder and        *)
(* EnhancedGlobalExceptionFilter.catch.                                    *)
(* A caught value is an error record with the public fields of its class.  *)
(* An object with string keys (details, context, the envelope) is a record *)
(* whose domain is its set of keys; "" stands for a missing or empty text. *)
(***************************************************************************)
ConfigurationException ==
    NewException("ConfigurationException", "", "Configuration error", 500)

\* a Nest HttpException built with a string response
HttpException(response, status) ==
    NewException("HttpException", "", response, status)

Caught(e, fields) == [exc |-> e, fields |-> fields]

isHttpException_HasResponse(e) == e.cls # "none" \/ e.hasResponse

\* exception instanceof HttpException
isHttpException(e) == e.cls # "none"

getStatus_Default(e) == 500

getStatus(e) == e.statusCode

\* exception.message, as the text the class composes from its arguments
message(e) == <<e.cls, e.details>>

\* exception.getResponse() of the exceptions built with an object response
getResponse(e) ==
    IF e.cls = "BadRequestException"
    THEN [message |-> message(e), errors |-> "errors", statusCode |-> 400,
          type |-> "VALIDATION_ERROR", timestamp |-> "validated-at"]
    ELSE [error |-> "Provider Error", message |-> message(e), details |-> e.details,
          provider |-> "tomtom", category |-> e.category,
          statusCode |-> e.statusCode]

hasObjectResponse(e) ==
    e.cls \in {"BadRequestException", "ProviderException",
               "ProviderAuthenticationError", "ProviderRateLimitError",
               "ProviderServiceError", "ProviderNetworkError",
               "ProviderUnknownError"}

DEFAULT_ERROR_MESSAGE == <<"", "Internal server error">>

ErrorMapping(status, msg, details) ==
    [status |-> status, message |-> msg, details |-> details]

createErrorFromException(x) ==
    LET e == x.exc IN
    IF isHttpException(e)
    THEN IF e.cls = "CountryMismatchException"
         THEN ErrorMapping(getStatus(e), message(e),
                  [expectedCountry |-> x.fields.expectedCountry,
                   actualCountry |-> x.fields.actualCountry,
                   query |-> x.fields.address,
                   type |-> "COUNTRY_VALIDATION_ERROR"])
         ELSE IF e.cls = "NoResultsException"
         THEN ErrorMapping(getStatus(e), message(e), [type |-> "NO_RESULTS_FOUND"])
         ELSE IF e.cls = "ConfigurationException"
         THEN ErrorMapping(getStatus(e), message(e), [type |-> "CONFIGURATION_ERROR"])
         ELSE IF e.cls = "InvalidInputException"
         THEN ErrorMapping(getStatus(e), message(e),
                  [type |-> "INVALID_INPUT_ERROR", input |-> "undefined",
                   validationErrors |-> "undefined"])
         ELSE LET details == IF hasObjectResponse(e) THEN getResponse(e)
                             ELSE [message |-> message(e)]
              IN  ErrorMapping(getStatus(e), message(e),
                               [type |-> "HTTP_ERROR"] @@ details)
    ELSE ErrorMapping(500, DEFAULT_ERROR_MESSAGE, [type |-> "UNKNOWN_ERROR"])

\* ErrorResponseBuilder.build: details are spread last and win
build(mapping, context) ==
    [success |-> FALSE,
     error |-> mapping.details @@
               [message |-> mapping.message, statusCode |-> mapping.status,
                timestamp |-> context.timestamp, path |-> context.path]]

getHttpStatus(mapping) == mapping.status

\* `mapping.shouldLog ?? false`: createErrorFromException sets no shouldLog
shouldLog(mapping) == FALSE

Request(header, correlationId, url) ==
    [header |-> header, correlationId |-> correlationId, url |-> url]

\* values uuidv4() returns
Uuids == {"uuid-1", "uuid-2"}

resolveCorrelationId_AttachedFirst(req, fresh) ==
    IF req.correlationId # "" THEN req.correlationId
    ELSE IF req.header # "" THEN req.header
    ELSE fresh

\* request.headers?.["x-correlation-id"] || request.correlationId || uuidv4()
resolveCorrelationId(req, fresh) ==
    IF req.header # "" THEN req.header
    ELSE IF req.correlationId # "" THEN req.correlationId
    ELSE fresh

createErrorContext(req, correlationId) ==
    [correlationId |-> correlationId, timestamp |-> "now",
     path |-> IF req.url # "" THEN req.url ELSE "unknown"]

NoContext == [correlationId |-> "", timestamp |-> "", path |-> ""]

\* LoggingConfig.level
Levels == {"error", "warn", "info", "debug", "verbose"}

\* ErrorLoggingService.shouldLogError: `"getStatus" in error` holds of the
\* HttpExceptions only
shouldLogError(e, lvl) ==
    IF ~isHttpException(e) THEN TRUE
    ELSE IF getStatus(e) >= 400 /\ getStatus(e) < 500
         THEN lvl \in {"debug", "verbose"}
         ELSE getStatus(e) >= 500

NoLog == [via |-> "none", exc |-> NoError, emitted |-> FALSE]

\* ErrorLoggingService.logError writes a record only if shouldLogError
logError(e, lvl) ==
    [via |-> "logError", exc |-> e, emitted |-> shouldLogError(e, lvl)]

\* ErrorLoggingService.logWarning always writes one
logWarning(e) == [via |-> "logWarning", exc |-> e, emitted |-> TRUE]

\* `mapping.logLevel ?? "error"`: createErrorFromException sets no logLevel
getLogLevel(mapping) == "error"

\* EnhancedGlobalExceptionFilter.logError
filterLogError(mapping, e, lvl, last) ==
    IF shouldLog(mapping)
    THEN IF getLogLevel(mapping) = "warn" THEN logWarning(e) ELSE logError(e, lvl)
    ELSE last

httpAdapterReply_Dropped(sent, envelope, statusCode) == sent

\* httpAdapter.reply(response, errorResponse, statusCode): one more reply is
\* on the wire
httpAdapterReply(sent, envelope, statusCode) ==
    Append(sent, [body |-> envelope, statusCode |-> statusCode])

NoReply ==
    [replied |-> FALSE, context |-> NoContext, logged |-> FALSE,
     body |-> [success |-> FALSE, error |-> [type |-> ""]], statusCode |-> 0,
     before |-> Request("", "", ""), sent |-> <<>>]

FilterExceptions ==
    { Caught(e, NoFields) :
        e \in { InvalidInputException("Invalid query parameters"), NoResultsException,
                ConfigurationException, BadRequestException,
                HttpException("I'm a teapot", 418),
                ProviderException("HTTPError", "HTTP 404", 404),
                ProviderAuthenticationError("Authentication failed"),
                ProviderRateLimitError("Rate limit exceeded"),
                ProviderServiceError("Service unavailable"),
                ProviderNetworkError("Network connectivity issue"),
                ProviderUnknownError("Unknown error occurred"),
                RawError(TRUE, "Error", FALSE, NoStatus, FALSE, FALSE, 0),
                RawError(TRUE, "AxiosError", TRUE, 404, TRUE, TRUE, 0),
                RawError(FALSE, "", FALSE, NoStatus, FALSE, FALSE, 0) } }
        \cup { Caught(CountryMismatchException,
                      [expectedCountry |-> AUSTRALIA.COUNTRY_NAME,
                       actualCountry |-> <<"New Zealand">>,
                       address |-> <<0, 3, 0>>]) }

\* EnhancedGlobalExceptionFilter.catch outside an HTTP context: it only logs
CatchWithoutAdapter(x) ==
    /\ exception' = x
    /\ reply' = NoReply
    /\ logRecord' = [via |-> "logger.error", exc |-> x.exc, emitted |-> TRUE]
    /\ UNCHANGED <<request, uuid, level, callVars, classifyVars, searchVars, otherVars>>

\* EnhancedGlobalExceptionFilter.catch with an HTTP adapter; `before` records
\* the request the filter was entered with
Catch(x) ==
    /\ exception' = x
    /\ LET correlationId == resolveCorrelationId(request, uuid)
           errorContext == createErrorContext(request, correlationId)
           errorMapping == createErrorFromException(x)
       IN  /\ request' = [request EXCEPT !.correlationId = correlationId]
           /\ uuid' \in IF request.header = "" /\ request.correlationId = ""
                        THEN Uuids \ {uuid} ELSE {uuid}
           /\ reply' = [replied |-> TRUE, context |-> errorContext,
                        logged |-> shouldLog(errorMapping),
                        body |-> build(errorMapping, errorContext),
                        statusCode |-> getHttpStatus(errorMapping),
                        before |-> request,
                        sent |-> httpAdapterReply(<<>>,
                                     build(errorMapping, errorContext),
                                     getHttpStatus(errorMapping))]
           /\ logRecord' = filterLogError(errorMapping, x.exc, level, logRecord)
    /\ UNCHANGED <<level, callVars, classifyVars, searchVars, otherVars>>

\* the next request reaches the application
NewRequest(header, url) ==
    /\ request' = Request(header, "", url)
    /\ UNCHANGED <<exception, uuid, reply, callVars, classifyVars, searchVars,
                   laterVars>>

\* a middleware attached a correlation id to the request before the handler ran
AttachCorrelationId(id) ==
    /\ request.correlationId = ""
    /\ request' = [request EXCEPT !.correlationId = id]
    /\ UNCHANGED <<exception, uuid, reply, callVars, classifyVars, searchVars,
                   laterVars>>

\* a direct call of ErrorLoggingService.logError
LogError(x) ==
    /\ logRecord' = logError(x.exc, level)
    /\ UNCHANGED <<level, callVars, classifyVars, searchVars, filterVars, otherVars>>

\* a direct call of ErrorLoggingService.logWarning
LogWarning(x) ==
    /\ logRecord' = logWarning(x.exc)
    /\ UNCHANGED <<level, callVars, classifyVars, searchVars, filterVars, otherVars>>

NoException == Caught(NoError, NoFields)

IdleFilter ==
    /\ request = Request("", "", "")
    /\ exception = NoException
    /\ uuid = "uuid-1"
    /\ reply = NoReply

\* createLoggingConfig's default level
IdleLogging ==
    /\ level = "error"
    /\ logRecord = NoLog

(***************************************************************************)
(* QuickrouteAddressParser (standalone.ts).  An application context is a   *)
(* positive number in the order of creation and 0 is null; the service is  *)
(* "service" or "null".  A caller is one call in progress: the awaits of   *)
(* initialize, searchAddresses and close are the points where another      *)
(* caller may run.                                                         *)
(***************************************************************************)
Callers == {1, 2}

NewParser == [app |-> 0, service |-> "null", isInitialized |-> FALSE]

NoNest ==
    [creations |-> 0, created |-> 0, closeCalls |-> 0,
     closes |-> [k \in 1..MaxContexts |-> 0]]

IdleCaller == [pc |-> "idle", outcome |-> "none", ctx |-> 0]

\* the three assignments of close() after app.close() resolved
reset_KeepsInitialized(p) == [p EXCEPT !.app = 0, !.service = "null"]

reset(p) == [p EXCEPT !.app = 0, !.service = "null", !.isInitialized = FALSE]

\* `if (this.isInitialized) return` of initialize()
mustCreate(p) == ~p.isInitialized

\* searchAddresses up to the first await: initialize() returns at once or
\* calls NestFactory.createApplicationContext and awaits it
SearchBegin(c) ==
    /\ callers[c].pc = "idle"
    /\ IF mustCreate(parser)
       THEN /\ nest.creations < MaxContexts
            /\ nest' = [nest EXCEPT !.creations = @ + 1]
            /\ callers' = [callers EXCEPT ![c] =
                               [pc |-> "creating", outcome |-> "none", ctx |-> 0]]
       ELSE /\ nest' = nest
            /\ callers' = [callers EXCEPT ![c] =
                               [pc |-> "initialized", outcome |-> "none", ctx |-> 0]]
    /\ UNCHANGED <<parser, callVars, classifyVars, searchVars, filterVars,
                   loggingVars, concurrentVars, unitVars>>

\* createApplicationContext settles and initialize() runs on: the context is
\* stored, app.get(...) gives the service or nothing, isInitialized is set
CreateSettle(c, how, got) ==
    /\ callers[c].pc = "creating"
    /\ \/ /\ how = "context"
          /\ nest' = [nest EXCEPT !.created = @ + 1]
          /\ parser' = [app |-> nest.created + 1, service |-> got,
                        isInitialized |-> TRUE]
          /\ callers' = [callers EXCEPT ![c].pc = "initialized"]
       \/ /\ how = "null"
          /\ got = "null"
          /\ nest' = nest
          /\ parser' = [parser EXCEPT !.app = 0]
          /\ callers' = [callers EXCEPT ![c] =
                             [pc |-> "idle", outcome |-> "TypeError", ctx |-> 0]]
       \/ /\ how = "rejected"
          /\ got = "null"
          /\ UNCHANGED <<nest, parser>>
          /\ callers' = [callers EXCEPT ![c] =
                             [pc |-> "idle", outcome |-> "creation failed", ctx |-> 0]]
    /\ UNCHANGED <<callVars, classifyVars, searchVars, filterVars,
                   loggingVars, concurrentVars, unitVars>>

\* searchAddresses after `await this.initialize()`
CallService(c) ==
    /\ callers[c].pc = "initialized"
    /\ callers' = [callers EXCEPT ![c] =
           IF parser.service = "null"
           THEN [pc |-> "idle",
                 outcome |-> "Failed to initialize address parser service",
                 ctx |-> 0]
           ELSE [pc |-> "searching", outcome |-> "none", ctx |-> parser.app]]
    /\ UNCHANGED <<parser, nest, callVars, classifyVars, searchVars, filterVars,
                   loggingVars, concurrentVars, unitVars>>

\* service.searchAddresses settles
ServiceSettle(c, ok) ==
    /\ callers[c].pc = "searching"
    /\ callers' = [callers EXCEPT ![c] =
           [pc |-> "idle", outcome |-> IF ok THEN "results" ELSE "search failed",
            ctx |-> 0]]
    /\ UNCHANGED <<parser, nest, callVars, classifyVars, searchVars, filterVars,
                   loggingVars, concurrentVars, unitVars>>

\* close() up to its await: `if (this.app)` and the call of app.close()
CloseBegin(c) ==
    /\ callers[c].pc = "idle"
    /\ IF parser.app # 0
       THEN /\ nest.closeCalls < MaxCloses
            /\ nest' = [nest EXCEPT !.closeCalls = @ + 1]
            /\ callers' = [callers EXCEPT ![c] =
                               [pc |-> "closing", outcome |-> "none",
                                ctx |-> parser.app]]
       ELSE /\ nest' = nest
            /\ callers' = [callers EXCEPT ![c] =
                               [pc |-> "idle", outcome |-> "nothing to close",
                                ctx |-> 0]]
    /\ UNCHANGED <<parser, callVars, classifyVars, searchVars, filterVars,
                   loggingVars, concurrentVars, unitVars>>

\* app.close() settles; a rejection leaves close() before its assignments
CloseSettle(c, ok) ==
    /\ callers[c].pc = "closing"
    /\ IF ok
       THEN /\ nest' = [nest EXCEPT !.closes[callers[c].ctx] = @ + 1]
            /\ parser' = reset(parser)
            /\ callers' = [callers EXCEPT ![c] =
                               [pc |-> "idle", outcome |-> "closed", ctx |-> 0]]
       ELSE /\ UNCHANGED <<nest, parser>>
            /\ callers' = [callers EXCEPT ![c] =
                               [pc |-> "idle", outcome |-> "close failed", ctx |-> 0]]
    /\ UNCHANGED <<callVars, classifyVars, searchVars, filterVars,
                   loggingVars, concurrentVars, unitVars>>

IdleStandalone ==
    /\ parser = NewParser
    /\ callers = [c \in Callers |-> IdleCaller]
    /\ nest = NoNest

(***************************************************************************)
(* Two calls of searchAddresses on one service and one provider client.    *)
(* Each call hands its own request to the transport (makeRequest ->        *)
(* httpService.request) and receives the response to that request; the     *)
(* client is configured without retries.                                   *)
(***************************************************************************)
CallIds == {1, 2}

CallQueries == {<<0, 12, 0>>, <<0, 15, 0>>}

CallAnswers ==
    { Succeeded(p) : p \in {"au", "empty", "foreign"} }
        \cup { Failed(HttpFailure(429)), Failed(HttpFailure(500)),
               Failed(NetworkFailure) }

NoAnswer == Failed(NoError)

NoCallState ==
    [pc |-> "idle", query |-> <<0, 0, 0>>, serial |-> 0, answer |-> NoAnswer,
     outcome |-> NoResult]

responseFor_Cached(i, cs) ==
    IF \E j \in CallIds : j # i /\ cs[j].pc = "done" /\ cs[j].query = cs[i].query
    THEN cs[CHOOSE j \in CallIds :
                j # i /\ cs[j].pc = "done" /\ cs[j].query = cs[i].query].answer
    ELSE cs[i].answer

\* firstValueFrom(httpService.request(requestConfig)): the observable of the
\* call's own request
responseFor(i, cs) == cs[i].answer

\* what the call settles with, given the response its pipeline received
outcomeOf(answer) ==
    IF answer.ok THEN validateResults(answer.payload)
    ELSE Err(Surfaced(mapError(answer.err)))

\* searchAddresses with a valid query, up to the await of the request
CallBegin(i, q) ==
    /\ calls[i].pc \in {"idle", "done"}
    /\ Len(requests) < MaxRequests
    /\ requests' = Append(requests, [call |-> i, query |-> q])
    /\ calls' = [calls EXCEPT ![i] =
                     [pc |-> "awaiting", query |-> q, serial |-> Len(requests) + 1,
                      answer |-> NoAnswer, outcome |-> NoResult]]
    /\ UNCHANGED <<callVars, classifyVars, searchVars, filterVars, loggingVars,
                   standaloneVars, unitVars>>

\* the provider answers the request of call i
ProviderAnswer(i, a) ==
    /\ calls[i].pc = "awaiting"
    /\ calls' = [calls EXCEPT ![i].pc = "answered", ![i].answer = a]
    /\ UNCHANGED <<requests, callVars, classifyVars, searchVars, filterVars,
                   loggingVars, standaloneVars, unitVars>>

\* the pipeline of call i delivers and the call settles
CallSettle(i) ==
    /\ calls[i].pc = "answered"
    /\ calls' = [calls EXCEPT ![i].pc = "done",
                              ![i].outcome = outcomeOf(responseFor(i, calls))]
    /\ UNCHANGED <<requests, callVars, classifyVars, searchVars, filterVars,
                   loggingVars, standaloneVars, unitVars>>

IdleCalls ==
    /\ calls = [i \in CallIds |-> NoCallState]
    /\ requests = <<>>

(***************************************************************************)
(* makeRequest's request config and mapToSuggestion's score, as functions. *)
(* Headers are a function of the header names; "" is a header not set.     *)
(* A score is a number of tenths.                                          *)
(***************************************************************************)
HeaderNames == {"User-Agent", "Accept", "Authorization"}

NoHeaders == [n \in HeaderNames |-> ""]

\* { ...a, ...b }
spread(a, b) == [n \in HeaderNames |-> IF b[n] # "" THEN b[n] ELSE a[n]]

BaseHttpOptions(headers) == [baseURL |-> "https://api", headers |-> headers]

\* an AxiosRequestConfig: hasHeaders tells whether it has a `headers` key
AxiosRequestConfig(hasHeaders, headers) ==
    [url |-> "/search", hasHeaders |-> hasHeaders, headers |-> headers]

\* the requestConfig makeRequest builds: `...config` comes after `headers`,
\* so a `headers` key of config replaces the merged headers
requestConfig(options, config) ==
    [baseURL |-> options.baseURL,
     url |-> config.url,
     headers |-> IF config.hasHeaders THEN config.headers
                 ELSE spread(options.headers, NoHeaders)]

\* 1.0
DEFAULT_SCORE == 10

\* a search result of the provider, as far as its score goes
ScoredResult(hasScore, score) == [hasScore |-> hasScore, score |-> score]

\* `score: score || 1.0` of mapToSuggestion
suggestionScore(r) ==
    IF ~r.hasScore \/ r.score = 0 THEN DEFAULT_SCORE ELSE r.score

NoProduct == [fn |-> "none"]

UnitSubjects ==
    { [fn |-> "makeRequest", options |-> BaseHttpOptions(b),
       config |-> AxiosRequestConfig(FALSE, NoHeaders)] :
        b \in [HeaderNames -> {"", "base"}] }
    \cup { [fn |-> "makeRequest", options |-> BaseHttpOptions(b),
            config |-> AxiosRequestConfig(TRUE, h)] :
             b \in [HeaderNames -> {"", "base"}], h \in [HeaderNames -> {"", "own"}] }
    \cup { [fn |-> "mapToSuggestion", result |-> ScoredResult(TRUE, n)] :
             n \in {0, 5, 10, 87} }
    \cup { [fn |-> "mapToSuggestion", result |-> ScoredResult(FALSE, 0)] }

MakeRequestStep ==
    /\ subject.fn = "makeRequest"
    /\ product = NoProduct
    /\ product' = [fn |-> "makeRequest",
                   requestConfig |-> requestConfig(subject.options, subject.config)]
    /\ UNCHANGED <<subject, callVars, classifyVars, searchVars, filterVars,
                   loggingVars, standaloneVars, concurrentVars>>

MapToSuggestionStep ==
    /\ subject.fn = "mapToSuggestion"
    /\ product = NoProduct
    /\ product' = [fn |-> "mapToSuggestion", score |-> suggestionScore(subject.result)]
    /\ UNCHANGED <<subject, callVars, classifyVars, searchVars, filterVars,
                   loggingVars, standaloneVars, concurrentVars>>

IdleUnit ==
    /\ subject = [fn |-> "none"]
    /\ product = NoProduct

IdleLater ==
    /\ IdleLogging
    /\ IdleStandalone
    /\ IdleCalls
    /\ IdleUnit

(***************************************************************************)
(* One search call.                                                        *)
(***************************************************************************)
\* searchAddresses up to its first await: validation, then getSuggestions ->
\* makeApiRequest -> makeRequest, which subscribes and issues the request
SearchAddresses(q, l) ==
    /\ pc = "idle"
    /\ query' = q
    /\ limit' = l
    /\ LET outcome == AddressSearchSchema(q, l) IN
        IF ~outcome.isValid
        THEN /\ result' = Err(BadRequestException)
             /\ pc' = "done"
             /\ UNCHANGED <<validated, attempts, elapsed, deadline>>
        ELSE /\ validated' = outcome.data
             /\ pc' = "request"
             /\ attempts' = 1
             /\ elapsed' = 0
             /\ deadline' = TimeoutTicks
             /\ UNCHANGED result
    /\ UNCHANGED <<retries, retryCount, wait, responses, timedOut, classifyVars, searchVars, filterVars, laterVars>>

\* the transport settles the attempt in flight
ProviderRespond(r) ==
    /\ pc = "request"
    /\ elapsed < deadline
    /\ responses' = Append(responses, r)
    /\ IF r.ok
       THEN /\ result' = validateResults(r.payload)
            /\ pc' = "done"
            /\ UNCHANGED <<retryCount, wait>>
       ELSE IF shouldRetry(r.err, retryCount, retries)
       THEN /\ retryCount' = retryCount + 1
            /\ \E j \in Jitter(retryCount + 1) :
                   wait' = exponentialDelay(retryCount + 1) + j
            /\ pc' = "backoff"
            /\ UNCHANGED result
       ELSE /\ result' = Err(Surfaced(mapError(rejection(responses'))))
            /\ pc' = "done"
            /\ UNCHANGED <<retryCount, wait>>
    /\ UNCHANGED <<retries, query, limit, validated, attempts, elapsed, deadline,
                   timedOut, classifyVars, searchVars, filterVars, laterVars>>

\* 100 ms pass while the call waits for the transport or for a back-off delay
Tick ==
    /\ pc \in {"request", "backoff"}
    /\ elapsed < deadline
    /\ pc = "backoff" => wait > 0
    /\ elapsed' = elapsed + 1
    /\ wait' = IF pc = "backoff" THEN wait - 1 ELSE wait
    /\ UNCHANGED <<retries, pc, query, limit, validated, attempts, retryCount,
                   deadline, responses, timedOut, result, classifyVars, searchVars, filterVars, laterVars>>

RetryFire_ResetsTimeout ==
    /\ pc = "backoff"
    /\ wait = 0
    /\ elapsed < deadline
    /\ attempts' = attempts + 1
    /\ pc' = "request"
    /\ deadline' = elapsed + TimeoutTicks
    /\ UNCHANGED <<retries, query, limit, validated, retryCount, elapsed,
                   wait, responses, timedOut, result, classifyVars, searchVars, filterVars, laterVars>>

\* the back-off delay is over: axios-retry issues the request again
RetryFire ==
    /\ pc = "backoff"
    /\ wait = 0
    /\ elapsed < deadline
    /\ attempts' = attempts + 1
    /\ pc' = "request"
    /\ UNCHANGED <<retries, query, limit, validated, retryCount, elapsed, deadline,
                   wait, responses, timedOut, result, classifyVars, searchVars, filterVars, laterVars>>

\* timeout(options.timeout) of makeRequest: the timer armed at subscription is
\* due; the operator unsubscribes, which cancels the request and its retries,
\* and raises TimeoutError into catchError
TimeoutFire ==
    /\ pc \in {"request", "backoff"}
    /\ elapsed >= deadline
    /\ timedOut' = TRUE
    /\ result' = Err(Surfaced(mapError(TimeoutError)))
    /\ pc' = "done"
    /\ UNCHANGED <<retries, query, limit, validated, attempts, retryCount, elapsed,
                   deadline, wait, responses, classifyVars, searchVars, filterVars, laterVars>>

\* the promise settled; nothing of the call survives it
Return ==
    /\ pc = "done"
    /\ pc' = "idle"
    /\ query' = <<0, 0, 0>>
    /\ limit' = 0
    /\ validated' = NoData
    /\ attempts' = 0
    /\ retryCount' = 0
    /\ elapsed' = 0
    /\ deadline' = 0
    /\ wait' = 0
    /\ responses' = <<>>
    /\ timedOut' = FALSE
    /\ result' = NoResult
    /\ UNCHANGED <<retries, classifyVars, searchVars, filterVars, laterVars>>

IdleCall ==
    /\ pc = "idle"
    /\ query = <<0, 0, 0>>
    /\ limit = 0
    /\ validated = NoData
    /\ attempts = 0
    /\ retryCount = 0
    /\ elapsed = 0
    /\ deadline = 0
    /\ wait = 0
    /\ responses = <<>>
    /\ timedOut = FALSE
    /\ result = NoResult

Init ==
    /\ retries \in 0..MaxRetries
    /\ IdleCall
    /\ raw = NoError
    /\ via = "none"
    /\ mapped = NoOutcome
    /\ IdleSearch
    /\ IdleFilter
    /\ IdleLater

Next ==
    \/ \E q \in QueryInputs, l \in LimitInputs : SearchAddresses(q, l)
    \/ \E r \in Answers : ProviderRespond(r)
    \/ Tick
    \/ RetryFire
    \/ TimeoutFire
    \/ Return

Spec == Init /\ [][Next]_vars

InitClassify ==
    /\ retries \in 0..MaxRetries
    /\ IdleCall
    /\ raw \in ClassifierInputs
    /\ via = "none"
    /\ mapped = NoOutcome
    /\ IdleSearch
    /\ IdleFilter
    /\ IdleLater

NextClassify ==
    \/ MapErrorStep
    \/ HandleErrorStep
    \/ InterceptStep

SpecClassify == InitClassify /\ [][NextClassify]_vars

IdleClassify ==
    /\ raw = NoError
    /\ via = "none"
    /\ mapped = NoOutcome

InitSearch ==
    /\ retries = 0
    /\ IdleCall
    /\ IdleClassify
    /\ IdleFilter
    /\ IdleLater
    /\ stage = "new"
    /\ input \in SearchInputs
    /\ checked = NoValidation
    /\ rechecked = NoValidation
    /\ body \in Bodies
    /\ settled = NoCall

NextSearch ==
    \/ SearchStart
    \/ SearchFinish

SpecSearch == InitSearch /\ [][NextSearch]_vars

InitValidate ==
    /\ retries = 0
    /\ IdleCall
    /\ IdleClassify
    /\ IdleFilter
    /\ IdleLater
    /\ stage = "new"
    /\ input \in ValidateInputs
    /\ checked = NoValidation
    /\ rechecked = NoValidation
    /\ body = NoBody
    /\ settled = NoCall

NextValidate ==
    \/ ValidateStep
    \/ RevalidateStep

SpecValidate == InitValidate /\ [][NextValidate]_vars

InitFilter ==
    /\ retries = 0
    /\ IdleCall
    /\ IdleClassify
    /\ IdleSearch
    /\ IdleFilter
    /\ IdleLater

NextFilter ==
    \/ \E x \in FilterExceptions : Catch(x)
    \/ \E x \in FilterExceptions : CatchWithoutAdapter(x)
    \/ \E header \in {"", "hdr-1"}, url \in {"", "/search"} : NewRequest(header, url)
    \/ AttachCorrelationId("req-1")

SpecFilter == InitFilter /\ [][NextFilter]_vars

IdleEarlier ==
    /\ retries = 0
    /\ IdleCall
    /\ IdleClassify
    /\ IdleSearch
    /\ IdleFilter

InitLogging ==
    /\ IdleEarlier
    /\ level \in Levels
    /\ logRecord = NoLog
    /\ IdleStandalone
    /\ IdleCalls
    /\ IdleUnit

NextLogging ==
    \/ \E x \in FilterExceptions : LogError(x)
    \/ \E x \in FilterExceptions : LogWarning(x)
    \/ \E x \in FilterExceptions : Catch(x)

SpecLogging == InitLogging /\ [][NextLogging]_vars

InitStandalone ==
    /\ IdleEarlier
    /\ IdleLater

\* one caller: each call is awaited before the next is made
NextLifecycle ==
    \/ SearchBegin(1)
    \/ \E how \in {"context", "null", "rejected"}, got \in {"service", "null"} :
           CreateSettle(1, how, got)
    \/ CallService(1)
    \/ \E ok \in BOOLEAN : ServiceSettle(1, ok)
    \/ CloseBegin(1)
    \/ \E ok \in BOOLEAN : CloseSettle(1, ok)

SpecLifecycle == InitStandalone /\ [][NextLifecycle]_vars

\* callers that do not wait for each other
NextStandalone ==
    \/ \E c \in Callers : SearchBegin(c)
    \/ \E c \in Callers, how \in {"context", "null", "rejected"},
          got \in {"service", "null"} : CreateSettle(c, how, got)
    \/ \E c \in Callers : CallService(c)
    \/ \E c \in Callers, ok \in BOOLEAN : ServiceSettle(c, ok)
    \/ \E c \in Callers : CloseBegin(c)
    \/ \E c \in Callers, ok \in BOOLEAN : CloseSettle(c, ok)

SpecStandalone == InitStandalone /\ [][NextStandalone]_vars

NextCalls ==
    \/ \E i \in CallIds, q \in CallQueries : CallBegin(i, q)
    \/ \E i \in CallIds, a \in CallAnswers : ProviderAnswer(i, a)
    \/ \E i \in CallIds : CallSettle(i)

InitCalls ==
    /\ IdleEarlier
    /\ IdleLater

SpecCalls == InitCalls /\ [][NextCalls]_vars

InitUnit ==
    /\ IdleEarlier
    /\ IdleLogging
    /\ IdleStandalone
    /\ IdleCalls
    /\ subject \in UnitSubjects
    /\ product = NoProduct

NextUnit ==
    \/ MakeRequestStep
    \/ MapToSuggestionStep

SpecUnit == InitUnit /\ [][NextUnit]_vars

(***************************************************************************)
(* Properties of one search call (Spec).                                   *)
(***************************************************************************)
InvalidCall ==
    \/ Length(trim(query)) < 3
    \/ Length(trim(query)) > 200
    \/ limit < 1
    \/ limit > 100

\* C1: a call whose trimmed query is shorter than 3 or longer than 200
\* characters, or whose limit is outside [1,100], fails with the validation
\* error and no request is ever handed to the provider for it.
C1_ValidationBeforeNetwork ==
    (pc # "idle" /\ InvalidCall) =>
        /\ pc = "done"
        /\ result = Err(BadRequestException)
        /\ attempts = 0
        /\ responses = <<>>

C1_Witness ==
    /\ pc = "done"
    /\ query = <<2, 2, 1>>
    /\ limit = 100
    /\ result = Err(BadRequestException)
    /\ attempts = 0

AllAnswered500 ==
    /\ responses # <<>>
    /\ \A i \in 1..Len(responses) : responses[i] = Failed(HttpFailure(500))

\* C2 as stated: with retries = N and a provider that answers every attempt
\* with HTTP 500, a call issues exactly N attempts and fails with
\* ProviderServiceError.
C2_ExactlyNAttempts ==
    (pc = "done" /\ AllAnswered500 /\ ~timedOut) =>
        /\ attempts = retries
        /\ result.exc.cls = "ProviderServiceError"

\* C2 amended: with retries = N and a provider that answers every attempt with
\* HTTP 500, a call issues at most N + 1 attempts (the first request and N
\* retries), exactly N + 1 unless the call's timeout expires first, and fails
\* with ProviderServiceError.
C2_RetryBound ==
    (pc = "done" /\ AllAnswered500) =>
        /\ result.kind = "error"
        /\ result.exc.cls = "ProviderServiceError"
        /\ attempts <= retries + 1
        /\ ~timedOut => /\ attempts = retries + 1
                        /\ Len(responses) = attempts
                        /\ result.exc.details = "Service unavailable (HTTP)"

C2_Witness ==
    /\ pc = "done"
    /\ AllAnswered500
    /\ ~timedOut
    /\ retries = 3
    /\ attempts = 4
    /\ result.exc.cls = "ProviderServiceError"

\* C3: when the provider answers the first attempt with HTTP 429 and the next
\* one with a success, and at least 2 retries are configured, the call succeeds
\* and exactly two provider requests were issued.
C3_TransientThenSuccess ==
    ( /\ pc = "done"
      /\ ~timedOut
      /\ retries >= 2
      /\ Len(responses) >= 1
      /\ responses[1] = Failed(HttpFailure(429))
      /\ Len(responses) >= 2 => responses[2] = Succeeded("au") ) =>
        /\ result = Ok
        /\ attempts = 2
        /\ Len(responses) = 2

C3_Witness ==
    /\ pc = "done"
    /\ retries = 3
    /\ responses = <<Failed(HttpFailure(429)), Succeeded("au")>>
    /\ attempts = 2
    /\ result = Ok

\* the failures the classification table calls transient: a network error
\* (request sent, no response), HTTP 429, HTTP 5xx
Transient(e) ==
    \/ ~e.hasResponse /\ e.hasRequest
    \/ e.hasResponse /\ (e.status = 429 \/ (e.status >= 500 /\ e.status <= 599))

\* C4: only transient failures are retried; a failure of any other
\* classification (HTTP 400, 401, 403, another non-5xx status, an unknown
\* error) ends the call on its first occurrence, after exactly one request
\* when it answers the first attempt.
C4_OnlyTransientRetried ==
    \A i \in 1..Len(responses) :
        (~responses[i].ok /\ ~Transient(responses[i].err)) =>
            /\ pc = "done"
            /\ Len(responses) = i
            /\ attempts = i

AllFailedTransient ==
    /\ responses # <<>>
    /\ \A i \in 1..Len(responses) :
           ~responses[i].ok /\ Transient(responses[i].err)

\* C5: when every attempt of a call failed with a retryable error and the
\* retries are used up, the call fails with the classification of the last
\* attempt's failure: a member of the taxonomy, not the first failure's.
C5_LastErrorSurfaced ==
    (pc = "done" /\ ~timedOut /\ AllFailedTransient /\ retryCount = retries) =>
        /\ result.kind = "error"
        /\ result.exc.cls \in TaxonomyClasses
        /\ Len(responses) = retries + 1
        /\ LET last == responses[Len(responses)].err IN
            /\ (last.hasResponse /\ last.status = 429)
                   => result.exc.cls = "ProviderRateLimitError"
            /\ (last.hasResponse /\ last.status >= 500)
                   => result.exc.cls = "ProviderServiceError"
            /\ ~last.hasResponse => result.exc.cls = "ProviderNetworkError"

C5_Witness ==
    /\ pc = "done"
    /\ retries = 2
    /\ responses = << Failed(HttpFailure(429)), Failed(NetworkFailure),
                      Failed(HttpFailure(500)) >>
    /\ result.exc.cls = "ProviderServiceError"

\* C6: the attempts and back-off delays of one call take no longer than the
\* configured timeout, counted from the start of the call; when it expires the
\* call ends at once with ProviderServiceError "Request timeout", and no
\* attempt is started at or after the expiry.
C6_TimeoutBoundsCall ==
    [][ /\ pc \in {"request", "backoff"} => elapsed <= TimeoutTicks
        /\ (pc \in {"request", "backoff"} /\ elapsed = TimeoutTicks) =>
               /\ pc' = "done"
               /\ timedOut'
               /\ attempts' = attempts
               /\ result' = Err(ProviderServiceError("Request timeout"))
        /\ (timedOut /\ pc' # "idle") =>
               /\ attempts' = attempts
               /\ result' = result ]_vars

C6_Witness ==
    /\ pc = "done"
    /\ timedOut
    /\ elapsed = TimeoutTicks
    /\ attempts = 3
    /\ retryCount = 2
    /\ result = Err(ProviderServiceError("Request timeout"))

(***************************************************************************)
(* Properties of the classifiers (SpecClassify).                           *)
(***************************************************************************)
\* C7 as stated: mapError returns a member of the taxonomy for every input,
\* already-classified exceptions included, and never throws.
C7_NeverThrows ==
    via = "mapError" =>
        /\ ~mapped.thrown
        /\ mapped.exc.cls \in TaxonomyClasses

\* C7 amended: mapError is total: for every input that is not already an
\* exception of the taxonomy it returns exactly one member of the taxonomy and
\* does not throw; its only throw is the rethrow of an already-classified
\* exception, which leaves it as that same exception.
C7_Total ==
    via = "mapError" =>
        /\ mapped.exc.cls \in TaxonomyClasses
        /\ raw.cls \notin TaxonomyClasses => ~mapped.thrown
        /\ mapped.thrown => (raw.cls \in TaxonomyClasses /\ mapped.exc = raw)

C7_Witness ==
    /\ via = "mapError"
    /\ ~raw.isObj
    /\ ~mapped.thrown
    /\ mapped.exc.cls = "ProviderUnknownError"

Row(when, cls, details) == [when |-> when, cls |-> cls, details |-> details]

UnknownRow(e) ==
    Row(~e.hasResponse /\ ~e.hasRequest, "ProviderUnknownError",
        "Unknown error occurred")

TimeoutRow(e) ==
    Row(e.isObj /\ e.name = "TimeoutError", "ProviderServiceError", "Request timeout")

StatusRows(e) ==
    << Row(e.hasResponse /\ e.status = 400, "InvalidInputException",
           "Invalid query parameters"),
       Row(e.hasResponse /\ e.status \in {401, 403}, "ProviderAuthenticationError",
           "Invalid API key or insufficient permissions"),
       Row(e.hasResponse /\ e.status = 429, "ProviderRateLimitError",
           "Too many requests"),
       Row(e.hasResponse /\ e.status >= 500, "ProviderServiceError",
           "Service unavailable (HTTP)"),
       Row(e.hasResponse, "ProviderException", "HTTP") >>

NetworkRow(e) ==
    Row(e.hasRequest /\ ~e.hasResponse, "ProviderNetworkError",
        "Failed to connect to API")

FallbackRow == Row(TRUE, "ProviderUnknownError", "Unknown error occurred")

EarliestRow(rows) ==
    rows[CHOOSE i \in 1..Len(rows) :
            rows[i].when /\ \A j \in 1..(i - 1) : ~rows[j].when]

AppliesRow(row, e) == e.cls = row.cls /\ e.details = row.details

\* C9 as stated: the rows apply in the order unknown shape (no response, no
\* request), timeout, response status rows, network, fallback, and the result
\* is that of the earliest matching row.
C9_TableOrder ==
    (via = "mapError" /\ raw.cls \notin TaxonomyClasses) =>
        AppliesRow(EarliestRow(<<UnknownRow(raw), TimeoutRow(raw)>>
                                   \o StatusRows(raw)
                                   \o <<NetworkRow(raw), FallbackRow>>),
                   mapped.exc)

\* C9 amended: the rows apply in the order timeout, response status rows,
\* network, then unknown shape / fallback, and the result is that of the
\* earliest matching row.
C9_CodeOrder ==
    (via = "mapError" /\ raw.cls \notin TaxonomyClasses) =>
        AppliesRow(EarliestRow(<<TimeoutRow(raw)>>
                                   \o StatusRows(raw)
                                   \o <<NetworkRow(raw), UnknownRow(raw), FallbackRow>>),
                   mapped.exc)

C9_Witness ==
    /\ via = "mapError"
    /\ raw.name = "TimeoutError"
    /\ raw.hasResponse
    /\ raw.status = 400
    /\ raw.hasRequest
    /\ mapped.exc.cls = "ProviderServiceError"
    /\ mapped.exc.details = "Request timeout"

\* C10: an exception that already belongs to the taxonomy leaves mapError,
\* handleError and the interceptor as the very same instance, neither wrapped
\* nor classified again.
C10_PassThrough ==
    (via # "none" /\ raw.cls \in TaxonomyClasses) =>
        /\ mapped.thrown
        /\ Surfaced(mapped) = raw

C10_Witness ==
    /\ via = "intercept"
    /\ raw.cls = "CountryMismatchException"
    /\ raw.id = 2
    /\ Surfaced(mapped) = raw

(***************************************************************************)
(* Properties of result validation and of the envelope (SpecSearch).       *)
(***************************************************************************)
Succeeded200 == stage = "done" /\ checked.isValid /\ ~settled.thrown

Raised(cls) == stage = "done" /\ settled.thrown /\ settled.exc.cls = cls

\* the positions of the raw results that are in Australia
AustralianPositions ==
    { k \in 1..Len(body.results) : body.results[k].nation = "AU" }

\* C11: every suggestion of a successful getSuggestions was mapped from a raw
\* result that is in Australia; a raw set with foreign entries yields either
\* suggestions without them or an exception, never a foreign suggestion.
C11_OnlyAustralian ==
    Succeeded200 =>
        \A i \in 1..Len(settled.results) :
            settled.results[i].raw \in AustralianPositions

C11_Witness ==
    /\ Succeeded200
    /\ Len(settled.results) >= 1
    /\ \E k \in 1..Len(body.results) : body.results[k].nation = "NZ"
    /\ \E k \in 1..Len(body.results) : body.results[k].nation = "US"

\* C12: result validation decides in this order: an in-band error envelope
\* raises ProviderServiceError; else missing or empty results raise
\* NoResultsException (404); else results without any Australian entry raise
\* CountryMismatchException (422); else the call succeeds with a non-empty
\* suggestion list.
C12_ValidationOrder ==
    (stage = "done" /\ checked.isValid) =>
        IF body.detailedError \/ body.errorText
        THEN settled.thrown /\ settled.exc.cls = "ProviderServiceError"
        ELSE IF ~body.hasResults \/ Len(body.results) = 0
        THEN /\ settled.thrown
             /\ settled.exc.cls = "NoResultsException"
             /\ settled.exc.statusCode = 404
        ELSE IF AustralianPositions = {}
        THEN /\ settled.thrown
             /\ settled.exc.cls = "CountryMismatchException"
             /\ settled.exc.statusCode = 422
        ELSE ~settled.thrown /\ Len(settled.results) >= 1

C12_Witness ==
    /\ Raised("ProviderServiceError")
    /\ body.errorText
    /\ ~body.detailedError
    /\ Len(body.results) = 1
    /\ AustralianPositions = {}

\* the country texts of the raw results, "Unknown" for a missing one
ObservedCountries ==
    { IF body.results[k].country = "" THEN "Unknown" ELSE body.results[k].country :
        k \in 1..Len(body.results) }

\* the items of a string joined with ", "
Items(joined) == [i \in 1..((Len(joined) + 1) \div 2) |-> joined[2 * i - 1]]

\* C13: a CountryMismatchException carries the expected country Australia,
\* the trimmed text of the original query, and the countries observed in the
\* raw results, each exactly once, "Unknown" standing for a missing country.
C13_MismatchDetails ==
    Raised("CountryMismatchException") =>
        LET countries == Items(settled.fields.actualCountry) IN
        /\ settled.fields.expectedCountry = "Australia"
        /\ settled.fields.address = <<0, input.query[2], 0>>
        /\ { countries[i] : i \in 1..Len(countries) } = ObservedCountries
        /\ \A i, j \in 1..Len(countries) : countries[i] = countries[j] => i = j
        /\ \A i \in 1..Len(settled.fields.actualCountry) :
               i % 2 = 0 => settled.fields.actualCountry[i] = ", "

C13_Witness ==
    /\ Raised("CountryMismatchException")
    /\ input.query[1] > 0
    /\ Len(body.results) = 3
    /\ body.results[1].country = "New Zealand"
    /\ body.results[2].country = ""
    /\ body.results[3].country = "New Zealand"

\* C14: the suggestions of a successful call are the Australian raw results
\* in the provider's order: each exactly once, none re-ordered.
C14_OrderPreserved ==
    Succeeded200 =>
        LET rs == settled.results IN
        /\ \A i, j \in 1..Len(rs) : i < j => rs[i].raw < rs[j].raw
        /\ { rs[i].raw : i \in 1..Len(rs) } = AustralianPositions

C14_Witness ==
    /\ Succeeded200
    /\ Len(body.results) = 3
    /\ AustralianPositions = {1, 3}
    /\ Len(settled.results) = 2

\* C15: in every successful search result metadata.resultCount is the length
\* of results of that same result.
C15_ResultCount ==
    (stage = "done" /\ ~settled.thrown) =>
        settled.metadata.resultCount = Len(settled.results)

C15_Witness ==
    /\ stage = "done"
    /\ ~settled.thrown
    /\ settled.metadata.resultCount = 3
    /\ settled.metadata.limit = 100

(***************************************************************************)
(* Properties of validateAddressInput (SpecValidate, SpecSearch).          *)
(***************************************************************************)
\* C16: validation is idempotent: validating the data of a successful
\* validation succeeds and yields the same data (query text, limit, country)
\* and the same warnings.
C16_ValidationIdempotent ==
    stage = "revalidated" =>
        /\ rechecked.isValid
        /\ rechecked.data = checked.data
        /\ rechecked.warnings = checked.warnings

C16_Witness ==
    /\ stage = "revalidated"
    /\ input.query[1] = 2
    /\ input.query[3] = 1
    /\ ~input.hasLimit
    /\ input.hasCountry
    /\ input.country[1] = 1
    /\ checked.data.limit = DEFAULT_LIMIT
    /\ rechecked.data.country = <<0, "au", 0>>

\* the input of the call passes validation by its trimmed length and limit
ValidLengthAndLimit ==
    /\ input.query[2] >= 3
    /\ input.query[2] <= 200
    /\ input.hasLimit => (input.limit >= 1 /\ input.limit <= 100)

Has(warnings, text) == \E i \in 1..Len(warnings) : warnings[i] = text

\* C17: a query whose trimmed length is valid never fails validation, however
\* far from the optimal range: the call goes on to the provider, and the
\* warnings of its result hold the "shorter than optimal" message exactly
\* when the trimmed length is below 10, the "longer than optimal" message
\* exactly when it is above 100, and nothing inside the optimal range.
C17_WarningsNotErrors ==
    (stage # "new" /\ ValidLengthAndLimit) =>
        /\ checked.isValid
        /\ ~Raised("BadRequestException")
        /\ Has(checked.warnings, SHORTER) <=> input.query[2] < 10
        /\ Has(checked.warnings, LONGER) <=> input.query[2] > 100
        /\ (input.query[2] >= 10 /\ input.query[2] <= 100) => checked.warnings = <<>>
        /\ Succeeded200 => settled.metadata.warnings = checked.warnings

C17_Witness ==
    /\ Succeeded200
    /\ input.query = <<2, 9, 1>>
    /\ settled.metadata.warnings = <<SHORTER>>

(***************************************************************************)
(* Properties of the renderer (SpecFilter).                                *)
(***************************************************************************)
\* the filter replied to the exception it caught last
Rendered(cls) == reply.replied /\ exception.exc.cls = cls

\* C18: the renderer's HTTP status follows the kind of the error: 400 for
\* invalid input, 404 no results, 422 country mismatch, 401 provider
\* authentication, 429 provider rate limit, 502 provider service error,
\* 503 provider network error, 500 for configuration errors, unknown provider
\* errors and whatever is no exception of the application.
C18_StatusByKind ==
    reply.replied =>
        LET cls == exception.exc.cls
            expected ==
                CASE cls \in {"InvalidInputException", "BadRequestException"} -> {400}
                  [] cls = "NoResultsException" -> {404}
                  [] cls = "CountryMismatchException" -> {422}
                  [] cls = "ProviderAuthenticationError" -> {401}
                  [] cls = "ProviderRateLimitError" -> {429}
                  [] cls = "ProviderServiceError" -> {502}
                  [] cls = "ProviderNetworkError" -> {503}
                  [] cls \in {"ConfigurationException", "ProviderUnknownError",
                              "none"} -> {500}
                  [] OTHER -> 100..599
        IN  /\ reply.statusCode \in expected
            /\ reply.body.error.statusCode = reply.statusCode

C18_Witness ==
    /\ Rendered("ProviderNetworkError")
    /\ reply.statusCode = 503
    /\ reply.body.error.type = "HTTP_ERROR"

\* what the resolution order of the correlation id gives for a request
ResolvedId(req, fresh) ==
    IF req.header # "" THEN req.header
    ELSE IF req.correlationId # "" THEN req.correlationId
    ELSE fresh

\* C19: the filter resolves the correlation id as the x-correlation-id header
\* if the request has one, else the correlationId attached to the request,
\* else a freshly generated identifier; when the filter is done
\* request.correlationId is that value and so is the correlationId of the
\* error context given to the logging and to the response builder.
C19_CorrelationOrder ==
    [][ (\E x \in FilterExceptions : Catch(x)) =>
            /\ request'.correlationId = ResolvedId(request, uuid)
            /\ reply'.context.correlationId = ResolvedId(request, uuid)
            /\ (request.header = "" /\ request.correlationId = "") => uuid' # uuid
      ]_vars

C19_Witness ==
    /\ reply.replied
    /\ reply.before = Request("", "req-1", "/search")
    /\ request.correlationId = "req-1"
    /\ reply.context.correlationId = "req-1"

\* C20: every error envelope holds the timestamp, the path of the request and
\* the resolved correlationId of the call next to message, statusCode and
\* the detail fields of the kind.
C20_EnvelopeFields ==
    reply.replied =>
        /\ {"message", "statusCode", "timestamp", "path", "type", "correlationId"}
               \subseteq DOMAIN reply.body.error
        /\ reply.body.error.correlationId = reply.context.correlationId

(***************************************************************************)
(* Properties of the exception filter's replies and of the logging.        *)
(***************************************************************************)
\* C21: for every exception the filter catches in an HTTP context it sends
\* exactly one reply, the envelope with the mapping's status; outside an HTTP
\* context (no httpAdapter) it writes one log record and sends no reply.
C21_OneReplyInHttpContext ==
    [][ /\ (\E x \in FilterExceptions : Catch(x)) =>
               /\ Len(reply'.sent) = 1
               /\ reply'.sent[1] = [body |-> reply'.body,
                                    statusCode |-> reply'.statusCode]
        /\ (\E x \in FilterExceptions : CatchWithoutAdapter(x)) =>
               /\ Len(reply'.sent) = 0
               /\ logRecord'.via = "logger.error"
               /\ logRecord'.emitted
      ]_vars

C21_Witness ==
    /\ reply.replied
    /\ exception.exc = NoResultsException
    /\ Len(reply.sent) = 1
    /\ reply.sent[1].statusCode = 404

\* C21 as stated: every exception handed to the filter gets exactly one reply.
C21_OneReplyAlways ==
    [][ ((\E x \in FilterExceptions : Catch(x))
            \/ (\E x \in FilterExceptions : CatchWithoutAdapter(x))) =>
            Len(reply'.sent) = 1
      ]_vars

\* C22: ErrorLoggingService.logError writes a record for an invalid-input or
\* validation error only at the levels debug and verbose, and writes one at
\* every level for every error of status 500 and above, every provider
\* authentication error (401) and every provider rate limit error (429).
C22_LoggingPolicy ==
    logRecord.via = "logError" =>
        LET e == logRecord.exc IN
        /\ e.cls \in {"InvalidInputException", "BadRequestException"} =>
               (logRecord.emitted <=> level \in {"debug", "verbose"})
        /\ (e.statusCode >= 500
               \/ e.cls \in {"ProviderAuthenticationError", "ProviderRateLimitError"}) =>
               logRecord.emitted

\* C25: whatever the filter catches that is no HttpException (a plain Error,
\* a string, null, undefined, any other object) is rendered with status 500,
\* the message "Internal server error" and the type UNKNOWN_ERROR, and the
\* envelope has no other field than message, statusCode, timestamp, path
\* and type.
C25_UnknownDowngraded ==
    (reply.replied /\ exception.exc.cls = "none") =>
        /\ reply.statusCode = 500
        /\ reply.body.error.statusCode = 500
        /\ reply.body.error.message = DEFAULT_ERROR_MESSAGE
        /\ reply.body.error.type = "UNKNOWN_ERROR"
        /\ DOMAIN reply.body.error =
               {"message", "statusCode", "timestamp", "path", "type"}

C25_Witness ==
    /\ reply.replied
    /\ exception.exc = RawError(TRUE, "AxiosError", TRUE, 404, TRUE, TRUE, 0)
    /\ reply.statusCode = 500
    /\ reply.body.error.type = "UNKNOWN_ERROR"

\* C30: in every envelope error.statusCode is the status of the reply,
\* error.message is the mapping's message, and error.timestamp and error.path
\* are those of the error context of the request: no field copied from the
\* exception's response body replaces them.
C30_EnvelopeNotOverridden ==
    reply.replied =>
        /\ reply.body.error.statusCode = reply.statusCode
        /\ reply.body.error.message = createErrorFromException(exception).message
        /\ reply.body.error.timestamp = reply.context.timestamp
        /\ reply.body.error.path = reply.context.path

(***************************************************************************)
(* Properties of the standalone parser.                                    *)
(***************************************************************************)
\* the contexts created and not yet closed
OpenContexts == { k \in 1..nest.created : nest.closes[k] = 0 }

C28_CreatedAtMostOnce ==
    nest.closeCalls = 0 => nest.created <= 1

\* C29: isInitialized holds only if the parser holds a context and a service.
C29_InitializedHasService ==
    parser.isInitialized => (parser.app # 0 /\ parser.service # "null")

(***************************************************************************)
(* Properties of calls that run side by side, and of the two functions.    *)
(***************************************************************************)
Begins(i) == calls[i].pc \in {"idle", "done"} /\ calls'[i].pc = "awaiting"

\* C23: every call issues a request of its own, whatever the other call is
\* doing or has done with the same or another query, and a call settles
\* with what the provider's response to its own request gives, not with the
\* result or the error of the other call.
C23_NoSharedState ==
    /\ [](\A i \in CallIds :
            /\ calls[i].pc # "idle" =>
                   /\ calls[i].serial \in 1..Len(requests)
                   /\ requests[calls[i].serial] =
                          [call |-> i, query |-> calls[i].query]
            /\ calls[i].pc = "done" =>
                   calls[i].outcome = outcomeOf(calls[i].answer)
            /\ \A j \in CallIds \ {i} :
                   (calls[i].pc # "idle" /\ calls[j].pc # "idle") =>
                       calls[i].serial # calls[j].serial)
    /\ [][ \A i \in CallIds :
               Begins(i) => Len(requests') = Len(requests) + 1 ]_vars

\* the same query twice: the first call failed, the second succeeded
C23_Witness ==
    /\ calls[1].pc = "done"
    /\ calls[2].pc = "done"
    /\ calls[1].query = calls[2].query
    /\ calls[1].serial < calls[2].serial
    /\ calls[1].answer = Failed(HttpFailure(429))
    /\ calls[1].outcome.exc.cls = "ProviderRateLimitError"
    /\ calls[2].answer = Succeeded("au")
    /\ calls[2].outcome = Ok
    /\ Len(requests) = 2

\* C26: the request makeRequest sends has every per-request header and every
\* base header that no per-request header of the same name replaces.
C26_HeaderUnion ==
    product.fn = "makeRequest" =>
        LET base == subject.options.headers
            own == IF subject.config.hasHeaders THEN subject.config.headers
                   ELSE NoHeaders
        IN  \A n \in HeaderNames :
                product.requestConfig.headers[n] =
                    IF own[n] # "" THEN own[n] ELSE base[n]

\* C27: the suggestion's score is the provider's score whenever the result
\* has one, a score of 0 included, and 1.0 only when the result has none.
C27_ScoreDefault ==
    product.fn = "mapToSuggestion" =>
        product.score = IF subject.result.hasScore THEN subject.result.score
                        ELSE DEFAULT_SCORE

====
